---- MODULE Spec2Model ----
(***************************************************************************)
(* Model of the car-reader asset catalog projection: the CSI header        *)
(* decoder and the string fields of car.rs, the per-asset projection of    *)
(* assetutil.rs (AssetUtilEntry::entries_from_asset_storage,               *)
(* ::from_csi_header and common_serialization), the header view            *)
(* (asset_util_header) and the TLV stream decoder.                         *)
(*                                                                         *)
(* One behaviour is one run over one input.  Over a catalog: the CSI       *)
(* records of the rendition table are decoded one by one, the              *)
(* name-identifier map is collected from the facet table, every rendition  *)
(* is projected to an AssetUtilEntry, every rendition key is run through   *)
(* the shared key projection, and the projection may be run a second time. *)
(* Over a store: the header view is built and serialized.  Over a byte     *)
(* reader: a TLV stream is decoded, or a string field of a fixed slot is   *)
(* read.                                                                   *)
(***************************************************************************)
EXTENDS Integers, Sequences, FiniteSets, TLC

VARIABLES
    renditionkeyfmt,            \* key format: sequence of attribute kinds
    facetkeysdb,                \* facet table in iteration order: [name, attributes]
    rendition_sha_digests,      \* digest table: rendition key -> sequence of bytes
    raw_renditions,             \* rendition table as stored: Option(sequence of [key, csi])
    imagedb,                    \* decoded rendition table: Option(sequence of [key, csi])
    name_identifer_to_facet_key,\* Option(map identifier value -> facet name)
    result,                     \* the entries pushed so far
    serializer_maps,            \* per rendition, the entries common_serialization emitted
    store,                      \* Option(the header and extended metadata of the store)
    header,                     \* Option(the AssetUtilHeader as serialized)
    rerun,                      \* Option(the entries of a second run over the catalog)
    reader,                     \* byte reader: [bytes, pos]
    parsed,                     \* Option(what the primitive reader returned)
    pc                          \* position of the run

vars == <<renditionkeyfmt, facetkeysdb, rendition_sha_digests, raw_renditions,
          imagedb, name_identifer_to_facet_key, result, serializer_maps,
          store, header, rerun, reader, parsed, pc>>

\* what the entry projection leaves alone
header_vars == <<store, header>>
reader_vars == <<reader, parsed>>

(***************************************************************************)
(* Bounds of the model.                                                    *)
(***************************************************************************)
MaxRenditions == 2
MaxFacets == 2
MaxProps == 2
MaxKeyFormat == 3
MaxTlvRecords == 2
SlotWidth == 3
MaxBytes == 5

(***************************************************************************)
(* Option<T>: None is the empty sequence, Some(x) the one-element one.     *)
(***************************************************************************)
None == <<>>
Some(x) == <<x>>
IsSome(o) == o # <<>>
Unwrap(o) == o[1]

Min(S) == CHOOSE i \in S : \A j \in S : i <= j

(***************************************************************************)
(* u32 values are kept at their full width as two 16-bit halves, so that   *)
(* sums near 2^32 are computed exactly.                                    *)
(***************************************************************************)
Half == 2^16
U32(h, l) == [hi |-> h, lo |-> l]

\* u32 + u32 as the machine computes it: the value modulo 2^32 and whether
\* the true sum did not fit.
AddU32(a, b) ==
    LET lo == a.lo + b.lo
        hi == a.hi + b.hi + (lo \div Half)
    IN  [value |-> U32(hi % Half, lo % Half), overflow |-> hi >= Half]

\* the on-disk size of the CSI header struct
CSIHeaderSize == 184

(***************************************************************************)
(* car.rs: enumerations decoded with #[br(repr(..))]; a raw value that is  *)
(* no discriminant fails the read (NoVariantMatch).                        *)
(***************************************************************************)
AttributeTypes ==
    {"Look", "Element", "Part", "Size", "Direction", "PlaceHolder", "Value",
     "Appearance", "Dimension1", "Dimension2", "State", "Layer", "Scale",
     "Unknown13", "PresentationState", "Idiom", "Subtype", "Identifier",
     "PreviousValue", "PreviousState", "SizeClassHorizontal",
     "SizeClassVertical", "MemoryClass", "GraphicsClass", "DisplayGamut",
     "DeploymentTarget"}

\* enum Scale { None = 0, X1 = 100, X2 = 200, X3 = 300 }
ScaleDiscriminants == {0, 100, 200, 300}

ReadScaleUnchecked(raw) == Some(raw)

ReadScale(raw) == IF raw \in ScaleDiscriminants THEN Some(raw) ELSE None

\* enum RenditionLayoutType, by discriminant (the variants the projection
\* tells apart, and two of the others)
LayoutOf(code) ==
    CASE code = 12   -> Some("Image")
      [] code = 1000 -> Some("Data")
      [] code = 1009 -> Some("Color")
      [] code = 9    -> Some("Vector")
      [] code = 1010 -> Some("MultisizeImage")
      [] OTHER       -> None

\* enum PixelFormat, by discriminant: the four-character tags "ARGB",
\* "DATA", "GA8 ", "JPEG" read as a u32, and 0
PixelFormatOf(code) ==
    CASE code = 0          -> Some("None")
      [] code = 1095911234 -> Some("ARGB")
      [] code = 1145132097 -> Some("Data")
      [] code = 1195456544 -> Some("Gray")
      [] code = 1246774599 -> Some("JPEG")
      [] OTHER             -> None

\* CSIHeader::read: the fields of the record, in order; any failing field
\* fails the record.
ReadCSIHeaderRecord(raw) ==
    LET scale  == ReadScale(raw.scale_factor)
        layout == LayoutOf(raw.layout)
        pixel_format == PixelFormatOf(raw.pixel_format)
    IN  IF scale = None \/ layout = None \/ pixel_format = None
        THEN None
        ELSE Some([rendition_flags |-> raw.rendition_flags,
                   width |-> raw.width,
                   height |-> raw.height,
                   scale_factor |-> Unwrap(scale),
                   pixel_format |-> Unwrap(pixel_format),
                   color_space |-> raw.color_space,
                   layout |-> Unwrap(layout),
                   name |-> raw.name,
                   tlv_length |-> raw.tlv_length,
                   rendition_length |-> raw.rendition_length,
                   tlv_data |-> raw.tlv_data,
                   rendition_data |-> raw.rendition_data])

\* RenditionFlags::is_opaque
IsOpaque(flags) == ((flags \div 8) % 2) # 0

(***************************************************************************)
(* Key-format engine: the positional join of the key format with a raw     *)
(* key, as a sequence of <<attribute, value>> pairs.                       *)
(***************************************************************************)
KeyFormatMap(keyfmt, key) ==
    [i \in 1..Len(keyfmt) |-> <<keyfmt[i], key[i]>>]

\* rendition_key_values.iter().find(|(attribute, _)| *attribute == kind)
\*     .and_then(|(_, value)| Some(value)): the value of the first pair of
\* that kind.
FindKeyValue(rendition_key_values, kind) ==
    LET I == {i \in DOMAIN rendition_key_values :
                  rendition_key_values[i][1] = kind}
    IN  IF I = {} THEN None ELSE Some(rendition_key_values[Min(I)][2])

\* key_token.attributes.iter().find(|attribute| attribute.name == kind)
FindAttribute(attributes, kind) ==
    LET I == {i \in DOMAIN attributes : attributes[i].name = kind}
    IN  IF I = {} THEN None ELSE Some(attributes[Min(I)])

\* coreui::rendition::Idiom, FromPrimitive::from_u16
IdiomNames == <<"universal", "phone", "pad">>
IdiomFromU16(value) ==
    IF value + 1 \in DOMAIN IdiomNames THEN Some(IdiomNames[value + 1]) ELSE None

\* coregraphics::ColorSpace::color_model: the colour model of a colour space
ColorModelOf(color_space) ==
    CASE color_space \in {"SRGB", "DisplayP3", "ExtendedRangeSRGB",
                          "ExtendedLinearSRGB"} -> Some("RGB")
      [] color_space \in {"GrayGamma2_2", "ExtendedGray"} -> Some("Monochrome")
      [] OTHER -> None

\* RenditionFlags::template_rendering_mode: a three-bit code; the codes
\* outside the enumeration give None
TemplateModes == <<"automatic", "original", "template">>
TemplateRenderingMode(flags) ==
    LET code == (flags \div 32) % 8
    IN  IF code + 1 \in DOMAIN TemplateModes
        THEN Some(TemplateModes[code + 1]) ELSE None

\* common::parse_padded_string: the characters before the first NUL
NUL == "\\0"
RECURSIVE ParsePaddedString(_)
ParsePaddedString(string) ==
    IF string = <<>> \/ Head(string) = NUL THEN <<>>
    ELSE <<Head(string)>> \o ParsePaddedString(Tail(string))

\* csi_header.properties(): the decoded TLV records, in stream order
Properties(csi_header) == csi_header.tlv_data

\* properties().into_iter().find_map(..) for a pattern that matches the
\* records of one type: the first record of that type.
FindProperty(properties, type) ==
    LET I == {i \in DOMAIN properties : properties[i].type = type}
    IN  IF I = {} THEN None ELSE Some(properties[Min(I)])

(***************************************************************************)
(* hex::ToHex::encode_hex_upper: two digits per byte, high nibble first,   *)
(* as a sequence of characters.                                            *)
(***************************************************************************)
HexUpper == <<"0", "1", "2", "3", "4", "5", "6", "7",
              "8", "9", "A", "B", "C", "D", "E", "F">>
HexLower == <<"0", "1", "2", "3", "4", "5", "6", "7",
              "8", "9", "a", "b", "c", "d", "e", "f">>

RECURSIVE EncodeHexWith(_, _)
EncodeHexWith(digits, bytes) ==
    IF bytes = <<>> THEN <<>>
    ELSE <<digits[(Head(bytes) \div 16) + 1], digits[(Head(bytes) % 16) + 1]>>
         \o EncodeHexWith(digits, Tail(bytes))

EncodeHexLower(bytes) == EncodeHexWith(HexLower, bytes)

EncodeHexUpper(bytes) == EncodeHexWith(HexUpper, bytes)

(***************************************************************************)
(* AssetUtilEntry::from_csi_header, field by field.                        *)
(***************************************************************************)
AssetTypeOf(layout) ==
    IF layout \in {"Color", "Data", "Image"} THEN Some(layout) ELSE None

BitsPerComponentOf(layout) == IF layout = "Image" THEN Some(8) ELSE None

\* lines 209-212
ColorComponentsOf(rendition_data) ==
    IF rendition_data.kind = "Color" THEN Some(rendition_data.components) ELSE None

\* lines 214-217
ColorModelFieldOf(csi_header) ==
    IF csi_header.layout = "Image" THEN ColorModelOf(csi_header.color_space) ELSE None

\* lines 220-224
ColorspaceOf(rendition_data) ==
    IF rendition_data.kind \in {"Color", "Theme"} THEN Some("srgb") ELSE None

\* lines 226-237
CompressionOf(csi_header) ==
    CASE csi_header.rendition_data.kind = "Theme" ->
             Some(csi_header.rendition_data.compression_type)
      [] csi_header.rendition_data.kind = "RawData" ->
             IF csi_header.layout = "Data" THEN Some("uncompressed") ELSE None
      [] OTHER -> None

\* lines 239-247
DataLengthOf(csi_header) ==
    IF csi_header.rendition_data.kind = "RawData" /\ csi_header.layout = "Data"
    THEN Some(csi_header.rendition_data.raw_data_length)
    ELSE None

\* lines 249-252
EncodingOf(csi_header) ==
    IF csi_header.layout = "Image" THEN Some(csi_header.pixel_format) ELSE None

\* lines 310-313
RenditionNameOf(csi_header) ==
    IF csi_header.layout = "Image" THEN Some(csi_header.name) ELSE None

\* lines 335-340
TemplateModeOf(csi_header) ==
    IF csi_header.layout = "Image"
    THEN TemplateRenderingMode(csi_header.rendition_flags)
    ELSE None

UTIUnknown == <<"U", "T", "I", "-", "U", "n", "k", "n", "o", "w", "n">>

UTIUntrimmed(csi_header) ==
    IF csi_header.layout = "Data"
    THEN LET uti == FindProperty(Properties(csi_header), "UTI")
         IN  IF IsSome(uti) THEN Some(Unwrap(uti).string) ELSE Some(UTIUnknown)
    ELSE None

\* lines 350-364
UTIOf(csi_header) ==
    IF csi_header.layout = "Data"
    THEN LET uti == FindProperty(Properties(csi_header), "UTI")
         IN  IF IsSome(uti)
             THEN Some(ParsePaddedString(Unwrap(uti).string))
             ELSE Some(UTIUnknown)
    ELSE None

OpaqueFlagsOnly(csi_header) ==
    IF csi_header.layout = "Image"
    THEN Some(IsOpaque(csi_header.rendition_flags))
    ELSE None

OpaqueOf(csi_header) ==
    IF csi_header.layout = "Image"
    THEN LET blend == FindProperty(Properties(csi_header), "BlendModeAndOpacity")
         IN  IF IsSome(blend)
             THEN Some(Unwrap(blend).opacity = "1.0")
             ELSE Some(IsOpaque(csi_header.rendition_flags))
    ELSE None

\* the Slices field that replaces a zero dimension; None when the stream
\* has no Slices record
SliceDimension(csi_header, field) ==
    LET slices == FindProperty(Properties(csi_header), "Slices")
    IN  IF IsSome(slices) THEN Some(Unwrap(slices)[field]) ELSE None

PixelHeightOf(csi_header) ==
    LET pixel_height ==
            IF csi_header.layout = "Image" THEN Some(csi_header.height) ELSE None
    IN  IF pixel_height = Some(0)
        THEN SliceDimension(csi_header, "height")
        ELSE pixel_height

PixelWidthFromHeight(csi_header) ==
    LET pixel_width ==
            IF csi_header.layout = "Image" THEN Some(csi_header.width) ELSE None
    IN  IF csi_header.layout = "Image" /\ csi_header.height = 0
        THEN SliceDimension(csi_header, "width")
        ELSE pixel_width

PixelWidthOf(csi_header) ==
    LET pixel_width ==
            IF csi_header.layout = "Image" THEN Some(csi_header.width) ELSE None
    IN  IF pixel_width = Some(0)
        THEN SliceDimension(csi_header, "width")
        ELSE pixel_width

ScaleOf(csi_header) ==
    IF csi_header.scale_factor = 0
    THEN Some(1)
    ELSE Some(csi_header.scale_factor \div 100)

\* 184 + tlv_length + rendition_length in u32, left to right
SizeOnDiskSum(csi_header) ==
    LET first  == AddU32(U32(0, CSIHeaderSize), csi_header.tlv_length)
        second == AddU32(first.value, csi_header.rendition_length)
    IN  [value |-> second.value, overflow |-> first.overflow \/ second.overflow]

\* lines 327-333: only the value 0 has a name
StateOf(rendition_key_values) ==
    LET state == FindKeyValue(rendition_key_values, "State")
    IN  IF IsSome(state) /\ Unwrap(state) = 0 THEN Some("Normal") ELSE None

\* lines 342-348: the slot searched for is State
ValueOf(rendition_key_values) ==
    LET state == FindKeyValue(rendition_key_values, "State")
    IN  IF IsSome(state)
        THEN Some(IF Unwrap(state) = 0 THEN "Off" ELSE "On")
        ELSE None

FromCsiHeader(csi_header, facet_key, rendition_key_values, sha_digest) ==
    [asset_type         |-> AssetTypeOf(csi_header.layout),
     bits_per_component |-> BitsPerComponentOf(csi_header.layout),
     color_components   |-> ColorComponentsOf(csi_header.rendition_data),
     color_model        |-> ColorModelFieldOf(csi_header),
     colorspace         |-> ColorspaceOf(csi_header.rendition_data),
     compression        |-> CompressionOf(csi_header),
     data_length        |-> DataLengthOf(csi_header),
     encoding           |-> EncodingOf(csi_header),
     idiom              |-> LET idiom == FindKeyValue(rendition_key_values, "Idiom")
                            IN  IF IsSome(idiom) THEN IdiomFromU16(Unwrap(idiom))
                                ELSE None,
     name               |-> facet_key,
     name_identifier    |-> FindKeyValue(rendition_key_values, "Identifier"),
     opaque             |-> OpaqueOf(csi_header),
     pixel_height       |-> PixelHeightOf(csi_header),
     pixel_width        |-> PixelWidthOf(csi_header),
     rendition_name     |-> RenditionNameOf(csi_header),
     scale              |-> ScaleOf(csi_header),
     sha1_digest        |-> Some(EncodeHexUpper(sha_digest)),
     size_on_disk       |-> Some(SizeOnDiskSum(csi_header).value),
     state              |-> StateOf(rendition_key_values),
     template_mode      |-> TemplateModeOf(csi_header),
     uti                |-> UTIOf(csi_header),
     value              |-> ValueOf(rendition_key_values)]

(***************************************************************************)
(* common_serialization: the entries written to the serializer map for one *)
(* key, in key-format order.  An entry is [field, str, num]: str holds a   *)
(* string value, num a numeric one.                                        *)
(***************************************************************************)
StrEntry(field, s) == [field |-> field, str |-> Some(s), num |-> None]
NumEntry(field, n) == [field |-> field, str |-> None, num |-> Some(n)]

KeyEntries(key, value) ==
    CASE key \in {"Part", "Element"} -> <<>>
      [] key = "Idiom" ->
            IF IsSome(IdiomFromU16(value))
            THEN <<StrEntry("Idiom", Unwrap(IdiomFromU16(value)))>>
            ELSE <<>>
      [] key = "State" ->
            <<StrEntry("State", IF value = 0 THEN "Normal" ELSE "???")>>
      [] key = "Value" ->
            <<StrEntry("Value", IF value = 0 THEN "Off" ELSE "On")>>
      [] OTHER -> IF value > 0 THEN <<NumEntry(key, value)>> ELSE <<>>

RECURSIVE SerializeKeyValues(_)
SerializeKeyValues(key_values) ==
    IF key_values = <<>> THEN <<>>
    ELSE KeyEntries(Head(key_values)[1], Head(key_values)[2])
         \o SerializeKeyValues(Tail(key_values))

CommonSerializationOf(keyformat, key) ==
    SerializeKeyValues(KeyFormatMap(keyformat, key))

(***************************************************************************)
(* entries_from_asset_storage, lines 141-154: one (value, name) pair per   *)
(* facet that has an Identifier attribute, collected into a HashMap; an    *)
(* insert for a key already present replaces its value.                    *)
(***************************************************************************)
Insert(map, k, v) ==
    [x \in (DOMAIN map) \cup {k} |-> IF x = k THEN v ELSE map[x]]

EmptyMap == [x \in {} |-> x]

RECURSIVE CollectNameIdentifiers(_, _)
CollectNameIdentifiers(facets, map) ==
    IF facets = <<>> THEN map
    ELSE LET attribute == FindAttribute(Head(facets).attributes, "Identifier")
         IN  CollectNameIdentifiers(
                 Tail(facets),
                 IF IsSome(attribute)
                 THEN Insert(map, Unwrap(attribute).value, Head(facets).name)
                 ELSE map)

FacetKeyOfFirstSlot(map, rendition_key_values) ==
    IF rendition_key_values # <<>> /\ rendition_key_values[1][2] \in DOMAIN map
    THEN Some(map[rendition_key_values[1][2]])
    ELSE None

\* lines 160-170: the facet name joined to one rendition
FacetKeyOf(map, rendition_key_values) ==
    LET name_identifier == FindKeyValue(rendition_key_values, "Identifier")
    IN  IF IsSome(name_identifier) /\ Unwrap(name_identifier) \in DOMAIN map
        THEN Some(map[Unwrap(name_identifier)])
        ELSE None

\* lines 171-175: get(rendition_key).cloned().unwrap_or_default()
ShaDigestOf(digests, rendition_key) ==
    IF rendition_key \in DOMAIN digests THEN digests[rendition_key] ELSE <<>>

(***************************************************************************)
(* The catalogs the runs are taken over.                                   *)
(***************************************************************************)
\* sequences over S of length at most n
SeqsUpTo(S, n) == UNION {[1..k -> S] : k \in 0..n}

\* u32 samples: 0, 54, 1777, 2^16, 2^31, 2^32 - 185, 2^32 - 184, 2^32 - 1
U32Samples ==
    {U32(0, 0), U32(0, 54), U32(0, 1777), U32(1, 0), U32(32768, 0),
     U32(65535, 65351), U32(65535, 65352), U32(65535, 65535)}

RawScales == {0, 50, 100, 200, 300, 400}
RawLayouts == {12, 1000, 1009, 9, 5}
FlagWords == {0, 7, 8, 15}
TlvRecords ==
    {[type |-> "Slices", width |-> 10, height |-> 20],
     [type |-> "Slices", width |-> 0, height |-> 30],
     [type |-> "BlendModeAndOpacity", opacity |-> "1.0"],
     [type |-> "BlendModeAndOpacity", opacity |-> "0.5"],
     [type |-> "UTI", string |-> <<"t", "x", "t", NUL, NUL>>],
     [type |-> "Unknown"]}

\* the image rendition and the data rendition of the test catalog
ImageCSI ==
    [rendition_flags |-> 0, width |-> 84, height |-> 84, scale_factor |-> 300,
     pixel_format |-> 1095911234, color_space |-> "SRGB", layout |-> 12,
     name |-> "Timac@3x.png",
     tlv_length |-> U32(0, 0), rendition_length |-> U32(0, 1777),
     tlv_data |-> <<>>,
     rendition_data |-> [kind |-> "Theme", compression_type |-> "palette-img"]]
DataCSI ==
    [rendition_flags |-> 0, width |-> 0, height |-> 0, scale_factor |-> 0,
     pixel_format |-> 1145132097, color_space |-> "SRGB", layout |-> 1000,
     name |-> "MyText.txt",
     tlv_length |-> U32(0, 0), rendition_length |-> U32(0, 54),
     tlv_data |-> <<>>,
     rendition_data |-> [kind |-> "RawData", raw_data_length |-> 14]]

RenditionBodies ==
    {[kind |-> "RawData", raw_data_length |-> 14],
     [kind |-> "Color", components |-> <<"1.0", "0.5", "0.0", "1.0">>],
     [kind |-> "Theme", compression_type |-> "palette-img"],
     [kind |-> "MultisizeImageSet"],
     [kind |-> "Unknown"]}
RawPixelFormats == {0, 1095911234, 1145132097, 1195456544, 1246774599, 7}
ColorSpaces == {"SRGB", "GrayGamma2_2", "Unknown"}
UTIStrings ==
    {<<"t", "x", "t", NUL, NUL>>, <<"t", "x", "t">>, <<"t", NUL, "x", NUL>>,
     <<NUL, "t">>, <<>>}

FacetNames == {"MyText", "MyPNG", "MyColor"}
Identifier(v) == [name |-> "Identifier", value |-> v]
KeyTokens ==
    {<<Identifier(1)>>,
     <<Identifier(2)>>,
     <<[name |-> "Element", value |-> 85], Identifier(1)>>,
     <<Identifier(2), Identifier(1)>>,
     <<[name |-> "Element", value |-> 85]>>}
Facets == [name : FacetNames, attributes : KeyTokens]
FacetTables == {t \in SeqsUpTo(Facets, MaxFacets) :
                    \A i, j \in DOMAIN t : t[i].name = t[j].name => i = j}
TestFacets ==
    <<[name |-> "MyText", attributes |-> <<Identifier(1)>>],
      [name |-> "MyPNG", attributes |-> <<Identifier(2)>>]>>

Digests == {<<>>, <<171, 15>>, <<0, 255, 158>>}
KeyValues == {0, 1, 9}
KeyFormats ==
    {<<"Scale", "Idiom", "Identifier", "State", "Value">>,
     <<"Value", "State">>,
     <<"Element", "Part", "Appearance">>,
     <<"Value", "Identifier">>,
     <<"State">>,
     <<"Idiom", "Subtype">>}

Rendition(key, csi) == [key |-> key, csi |-> csi]

\* the digest tables over a set of keys
DigestTables(keys) == UNION {[K -> Digests] : K \in SUBSET keys}

(***************************************************************************)
(* The header view: ToAssetUtilHeader::asset_util_header and the           *)
(* serializer of the attribute kinds.                                      *)
(***************************************************************************)
\* static VERSION
VERSION == "804.3"

SerializeAttributeTypeNoSuffix(attribute_type) == "kCRTheme" \o attribute_type

\* RenditionAttributeType::serialize: format!("kCRTheme{}Name", self.to_string())
SerializeAttributeType(attribute_type) ==
    "kCRTheme" \o attribute_type \o "Name"

\* theme_store.rendition_key_format(): the attribute kinds of the key
\* format, in declaration order
RenditionKeyFormat(keyfmt) == keyfmt

\* asset_util_header, with the key format as the derived serializer of
\* Vec<AttributeType> writes it
AssetUtilHeaderOf(keyfmt, theme_store) ==
    [appearances           |-> theme_store.appearances,
     asset_storage_version |-> theme_store.version_string,
     authoring_tool        |-> theme_store.authoring_tool,
     core_ui_version       |-> theme_store.core_ui_version,
     dump_tool_version     |-> VERSION,
     key_format            |-> [k \in DOMAIN RenditionKeyFormat(keyfmt) |->
                                   SerializeAttributeType(RenditionKeyFormat(keyfmt)[k])],
     main_version_string   |-> theme_store.main_version_string,
     platform              |-> theme_store.deployment_platform,
     platform_version      |-> theme_store.deployment_platform_version,
     schema_version        |-> theme_store.schema_version,
     storage_version       |-> theme_store.storage_version,
     timestamp             |-> theme_store.storage_timestamp]

\* the store of the test catalog
TestStore ==
    [appearances                 |-> None,
     version_string              |-> "IBCocoaTouchImageCatalogTool-10.0",
     authoring_tool              |-> "@(#)PROGRAM:CoreThemeDefinition  PROJECT:CoreThemeDefinition-346.29\n",
     core_ui_version             |-> 498,
     main_version_string         |-> "@(#)PROGRAM:CoreUI  PROJECT:CoreUI-498.40.1\n",
     deployment_platform         |-> "ios",
     deployment_platform_version |-> "12.0",
     schema_version              |-> 2,
     storage_version             |-> 15,
     storage_timestamp           |-> 1539543253]

TestKeyFormat ==
    <<"Appearance", "Scale", "Idiom", "Subtype", "DeploymentTarget",
      "GraphicsClass", "MemoryClass", "DisplayGamut", "Direction",
      "SizeClassHorizontal", "SizeClassVertical", "Identifier", "Element",
      "Part", "State", "Value", "Dimension1", "Dimension2">>

HeaderKinds == {"Idiom", "Scale", "Identifier", "Dimension1", "Unknown13"}
AppearanceTables ==
    {None, Some(<<>>), Some(<<[name |-> "NSAppearanceNameDarkAqua", value |-> 1]>>)}

InitCatalog(keyfmt, facets, digests, renditions) ==
    /\ renditionkeyfmt = keyfmt
    /\ facetkeysdb = facets
    /\ rendition_sha_digests = digests
    /\ raw_renditions = renditions
    /\ imagedb = IF renditions = None THEN None ELSE Some(<<>>)
    /\ name_identifer_to_facet_key = None
    /\ result = <<>>
    /\ serializer_maps = <<>>
    /\ store = None
    /\ header = None
    /\ rerun = None
    /\ reader = [bytes |-> <<>>, pos |-> 0]
    /\ parsed = None
    /\ pc = IF renditions = None \/ Unwrap(renditions) = <<>>
            THEN "facets" ELSE "read"

\* facet tables of every shape and order, against one rendition
InitFacets ==
    \E keyfmt \in {<<"Idiom", "Identifier">>, <<"Idiom", "Scale">>},
       facets \in FacetTables,
       key \in {<<0, 1>>, <<0, 2>>, <<0, 3>>} :
        InitCatalog(keyfmt, facets, [k \in {key} |-> <<171, 15>>],
                    Some(<<Rendition(key, ImageCSI)>>))

\* rendition tables of every size, with and without digests
InitRenditions ==
    LET keys == {<<0, 1>>, <<1, 2>>, <<0, 3>>}
    IN  \E table \in {None} \cup
                     {Some(t) : t \in
                        {t \in SeqsUpTo([key : keys, csi : {ImageCSI, DataCSI}],
                                        MaxRenditions) :
                            \A i, j \in DOMAIN t : t[i].key = t[j].key => i = j}},
           digests \in DigestTables(keys) :
            InitCatalog(<<"Idiom", "Identifier">>, TestFacets, digests, table)

\* the two lengths of the bitmap list
InitSizes ==
    \E tlv_length \in U32Samples, rendition_length \in U32Samples :
        InitCatalog(<<"Idiom", "Identifier">>, TestFacets, EmptyMap,
                    Some(<<Rendition(<<0, 1>>,
                        [DataCSI EXCEPT !.tlv_length = tlv_length,
                                        !.rendition_length = rendition_length])>>))

\* raw scale factors and layouts, valid or not
InitScales ==
    \E scale_factor \in RawScales, layout \in RawLayouts :
        InitCatalog(<<"Idiom", "Identifier">>, TestFacets, EmptyMap,
                    Some(<<Rendition(<<0, 2>>,
                        [ImageCSI EXCEPT !.scale_factor = scale_factor,
                                         !.layout = layout])>>))

\* flags, dimensions and TLV streams
InitImages ==
    \E layout \in {12, 1000}, flags \in FlagWords,
       width \in {0, 84}, height \in {0, 42},
       tlv_data \in SeqsUpTo(TlvRecords, MaxProps) :
        InitCatalog(<<"Idiom", "Identifier">>, TestFacets, EmptyMap,
                    Some(<<Rendition(<<0, 2>>,
                        [ImageCSI EXCEPT !.layout = layout,
                                         !.rendition_flags = flags,
                                         !.width = width,
                                         !.height = height,
                                         !.tlv_data = tlv_data])>>))

\* layouts against rendition bodies, pixel formats, colour spaces and flags
InitBodies ==
    \E layout \in RawLayouts, rendition_data \in RenditionBodies,
       pixel_format \in RawPixelFormats, color_space \in ColorSpaces,
       flags \in {0, 32, 64, 96} :
        InitCatalog(<<"Idiom", "Identifier">>, TestFacets, EmptyMap,
                    Some(<<Rendition(<<0, 2>>,
                        [ImageCSI EXCEPT !.layout = layout,
                                         !.rendition_data = rendition_data,
                                         !.pixel_format = pixel_format,
                                         !.color_space = color_space,
                                         !.rendition_flags = flags])>>))

\* data renditions: rendition bodies against the UTI records of the stream
InitData ==
    \E layout \in {12, 1000}, rendition_data \in RenditionBodies,
       key \in {<<0, 1>>, <<0, 3>>},
       tlv_data \in SeqsUpTo([type : {"UTI"}, string : UTIStrings]
                              \cup {[type |-> "Unknown"]}, MaxProps) :
        InitCatalog(<<"Idiom", "Identifier">>, TestFacets, EmptyMap,
                    Some(<<Rendition(key,
                        [DataCSI EXCEPT !.layout = layout,
                                        !.rendition_data = rendition_data,
                                        !.tlv_data = tlv_data])>>))

\* stores with and without appearances, against key formats
InitHeaders ==
    \E keyfmt \in SeqsUpTo(HeaderKinds, MaxKeyFormat) \cup {TestKeyFormat},
       appearances \in AppearanceTables :
        /\ renditionkeyfmt = keyfmt
        /\ facetkeysdb = <<>>
        /\ rendition_sha_digests = EmptyMap
        /\ raw_renditions = None
        /\ imagedb = None
        /\ name_identifer_to_facet_key = None
        /\ result = <<>>
        /\ serializer_maps = <<>>
        /\ store = Some([TestStore EXCEPT !.appearances = appearances])
        /\ header = None
        /\ rerun = None
        /\ reader = [bytes |-> <<>>, pos |-> 0]
        /\ parsed = None
        /\ pc = "header"

\* a u32 as four little-endian bytes, and back
Le32(u) == <<u.lo % 256, u.lo \div 256, u.hi % 256, u.hi \div 256>>
ReadU32(bytes, pos) ==
    U32(bytes[pos + 4] * 256 + bytes[pos + 3], bytes[pos + 2] * 256 + bytes[pos + 1])

\* the recognized tags
TagName(tag) ==
    CASE tag = U32(0, 1001) -> "Slices"
      [] tag = U32(0, 1004) -> "BlendModeAndOpacity"
      [] tag = U32(0, 1005) -> "UTI"
      [] OTHER              -> "Unknown"

Remaining(r) == Len(r.bytes) - r.pos

\* the catalog is not looked at while a primitive reader runs
IdleCatalog ==
    /\ renditionkeyfmt = <<>>
    /\ facetkeysdb = <<>>
    /\ rendition_sha_digests = EmptyMap
    /\ raw_renditions = None
    /\ imagedb = None
    /\ name_identifer_to_facet_key = None
    /\ result = <<>>
    /\ serializer_maps = <<>>
    /\ store = None
    /\ header = None
    /\ rerun = None

\* TLV records as stored: recognized and unrecognized tags, lengths that
\* fit and a length that cannot
TlvTags == {U32(0, 1001), U32(0, 1005), U32(0, 7)}
TlvLengths == {U32(0, 0), U32(0, 4), U32(65535, 65535)}
EncodeTlv(tag, n) ==
    Le32(tag) \o Le32(n) \o [k \in 1..(IF n.hi = 0 THEN n.lo ELSE 0) |-> 170]
RECURSIVE Concat(_)
Concat(seqs) == IF seqs = <<>> THEN <<>> ELSE Head(seqs) \o Concat(Tail(seqs))
TlvStreams ==
    {Concat(records) :
        records \in SeqsUpTo({EncodeTlv(tag, n) : tag \in TlvTags, n \in TlvLengths},
                             MaxTlvRecords)}

\* streams cut at every declared length
InitTlv ==
    \E stream \in TlvStreams :
        \E L \in 0..Len(stream) :
            /\ IdleCatalog
            /\ reader = [bytes |-> SubSeq(stream, 1, L), pos |-> 0]
            /\ parsed = Some(<<>>)
            /\ pc = "tlv"

\* inputs shorter than the slot, of its width and longer, with and without NUL
SlotBytes == {0, 65, 66}
InitStrings ==
    \E bytes \in SeqsUpTo(SlotBytes, MaxBytes) :
        /\ IdleCatalog
        /\ reader = [bytes |-> bytes, pos |-> 0]
        /\ parsed = None
        /\ pc = "string"

\* key formats and keys
InitKeys ==
    \E keyfmt \in KeyFormats :
        \E key \in [1..Len(keyfmt) -> KeyValues] :
            InitCatalog(keyfmt, TestFacets, EmptyMap,
                        Some(<<Rendition(key, DataCSI)>>))

Init ==
    \/ InitFacets
    \/ InitRenditions
    \/ InitSizes
    \/ InitScales
    \/ InitImages
    \/ InitBodies
    \/ InitData
    \/ InitKeys
    \/ InitHeaders
    \/ InitTlv
    \/ InitStrings

(***************************************************************************)
(* The steps of a run.                                                     *)
(***************************************************************************)
\* car.rs CSIHeader: decode the next CSI record of the rendition table
ReadCSIHeader ==
    /\ pc = "read"
    /\ LET table == Unwrap(raw_renditions)
           read  == Unwrap(imagedb)
           next  == table[Len(read) + 1]
           csi   == ReadCSIHeaderRecord(next.csi)
       IN  IF csi = None
           THEN /\ pc' = "error"
                /\ UNCHANGED imagedb
           ELSE /\ imagedb' = Some(Append(read, Rendition(next.key, Unwrap(csi))))
                /\ pc' = IF Len(read) + 1 = Len(table) THEN "facets" ELSE "read"
    /\ UNCHANGED <<renditionkeyfmt, facetkeysdb, rendition_sha_digests,
                   raw_renditions, name_identifer_to_facet_key, result,
                   serializer_maps>>
    /\ UNCHANGED <<header_vars, rerun, reader_vars>>

\* entries_from_asset_storage, lines 139-154
BuildNameIdentifierMap ==
    /\ pc = "facets"
    /\ name_identifer_to_facet_key' =
           Some(CollectNameIdentifiers(facetkeysdb, EmptyMap))
    /\ pc' = "project"
    /\ UNCHANGED <<renditionkeyfmt, facetkeysdb, rendition_sha_digests,
                   raw_renditions, imagedb, result, serializer_maps>>
    /\ UNCHANGED <<header_vars, rerun, reader_vars>>

RenditionsWithDigest ==
    IF imagedb = None THEN <<>>
    ELSE SelectSeq(Unwrap(imagedb),
                   LAMBDA rendition : rendition.key \in DOMAIN rendition_sha_digests)

\* `if let Some(imagedb)`: the renditions the loop goes over
Renditions == IF imagedb = None THEN <<>> ELSE Unwrap(imagedb)

\* entries_from_asset_storage, lines 157-183: one iteration of the loop.
\* The u32 sum of from_csi_header panics on overflow in a build with
\* overflow checks and wraps in a build without.
ProjectRendition ==
    /\ pc = "project"
    /\ Len(result) < Len(Renditions)
    /\ LET rendition == Renditions[Len(result) + 1]
           rendition_key_values == KeyFormatMap(renditionkeyfmt, rendition.key)
           facet_key == FacetKeyOf(Unwrap(name_identifer_to_facet_key),
                                   rendition_key_values)
           sha_digest == ShaDigestOf(rendition_sha_digests, rendition.key)
           entry == FromCsiHeader(rendition.csi, facet_key,
                                  rendition_key_values, sha_digest)
       IN  \/ /\ result' = Append(result, entry)
              /\ pc' = "project"
           \/ /\ SizeOnDiskSum(rendition.csi).overflow
              /\ pc' = "panic"
              /\ UNCHANGED result
    /\ UNCHANGED <<renditionkeyfmt, facetkeysdb, rendition_sha_digests,
                   raw_renditions, imagedb, name_identifer_to_facet_key,
                   serializer_maps>>
    /\ UNCHANGED <<header_vars, rerun, reader_vars>>

\* entries_from_asset_storage, line 185
ReturnEntries ==
    /\ pc = "project"
    /\ Len(result) = Len(Renditions)
    /\ pc' = IF Renditions = <<>> THEN "done" ELSE "serialize"
    /\ UNCHANGED <<renditionkeyfmt, facetkeysdb, rendition_sha_digests,
                   raw_renditions, imagedb, name_identifer_to_facet_key,
                   result, serializer_maps>>
    /\ UNCHANGED <<header_vars, rerun, reader_vars>>

\* common_serialization over the key of the next rendition
CommonSerialization ==
    /\ pc = "serialize"
    /\ LET rendition == Renditions[Len(serializer_maps) + 1]
       IN  /\ serializer_maps' =
                  Append(serializer_maps,
                         CommonSerializationOf(renditionkeyfmt, rendition.key))
           /\ pc' = IF Len(serializer_maps) + 1 = Len(Renditions)
                    THEN "done" ELSE "serialize"
    /\ UNCHANGED <<renditionkeyfmt, facetkeysdb, rendition_sha_digests,
                   raw_renditions, imagedb, name_identifer_to_facet_key,
                   result>>
    /\ UNCHANGED <<header_vars, rerun, reader_vars>>

(***************************************************************************)
(* The TLV stream decoder (parse_tlv_data, called by CSIHeader with the    *)
(* declared length of the stream): the reader holds the bytes of the       *)
(* stream, reader.pos the bytes consumed so far.                           *)
(***************************************************************************)
\* one turn of the loop: a 32-bit tag, a 32-bit length n, n value bytes
ParseTlvRecord ==
    /\ pc = "tlv"
    /\ Remaining(reader) >= 8
    /\ LET tag == ReadU32(reader.bytes, reader.pos)
           n   == ReadU32(reader.bytes, reader.pos + 4)
       IN  IF n.hi > 0 \/ n.lo > Remaining(reader) - 8
           THEN /\ pc' = "TlvTruncated"
                /\ parsed' = None
                /\ reader' = [reader EXCEPT !.pos = @ + 8]
           ELSE /\ pc' = "tlv"
                /\ parsed' = Some(Append(Unwrap(parsed),
                       [type |-> TagName(tag), tag |-> tag,
                        bytes |-> SubSeq(reader.bytes, reader.pos + 9,
                                         reader.pos + 8 + n.lo)]))
                /\ reader' = [reader EXCEPT !.pos = @ + 8 + n.lo]
    /\ UNCHANGED <<renditionkeyfmt, facetkeysdb, rendition_sha_digests,
                   raw_renditions, imagedb, name_identifer_to_facet_key,
                   result, serializer_maps, header_vars, rerun>>

\* the loop ends when fewer than 8 bytes remain
ParseTlvReturn ==
    /\ pc = "tlv"
    /\ Remaining(reader) < 8
    /\ pc' = "tlv_done"
    /\ UNCHANGED <<renditionkeyfmt, facetkeysdb, rendition_sha_digests,
                   raw_renditions, imagedb, name_identifer_to_facet_key,
                   result, serializer_maps, header_vars, rerun, reader_vars>>

(***************************************************************************)
(* A string field of a fixed slot: MyNullString under pad_size_to, as in   *)
(* CarHeader and CarExtendedMetadata.  The slot starts at position 0.      *)
(***************************************************************************)
\* NullString::read_options: bytes are read one by one up to and including
\* the first NUL; the end of the input before a NUL is an error
NulsFrom(bytes, pos) == {k \in DOMAIN bytes : k > pos /\ bytes[k] = 0}
ReadNullString(bytes, pos) ==
    IF NulsFrom(bytes, pos) = {}
    THEN [ok |-> FALSE, string |-> <<>>, pos |-> Len(bytes)]
    ELSE [ok |-> TRUE,
          string |-> SubSeq(bytes, pos + 1, Min(NulsFrom(bytes, pos)) - 1),
          pos |-> Min(NulsFrom(bytes, pos))]

\* pad_size_to: seeks forward to start + size when fewer bytes were read;
\* the seek does not look at the length of the input
PadSizeTo(start, pos, size) == IF pos < start + size THEN start + size ELSE pos

\* the field as a whole: MyNullString::read_options, then the padding
ReadPaddedString ==
    /\ pc = "string"
    /\ LET s == ReadNullString(reader.bytes, reader.pos)
       IN  IF s.ok
           THEN /\ parsed' = Some(s.string)
                /\ reader' = [reader EXCEPT !.pos = PadSizeTo(reader.pos, s.pos, SlotWidth)]
                /\ pc' = "string_done"
           ELSE /\ parsed' = None
                /\ reader' = [reader EXCEPT !.pos = s.pos]
                /\ pc' = "string_error"
    /\ UNCHANGED <<renditionkeyfmt, facetkeysdb, rendition_sha_digests,
                   raw_renditions, imagedb, name_identifer_to_facet_key,
                   result, serializer_maps, header_vars, rerun>>

\* the orders in which a mapping of the storage may be iterated
IterationOrders(table) ==
    {[k \in DOMAIN table |-> table[p[k]]] :
        p \in {q \in [DOMAIN table -> DOMAIN table] :
                  \A a, b \in DOMAIN table : q[a] = q[b] => a = b}}

\* entries_from_asset_storage as a whole, over the facet table and the
\* rendition table in the order they are iterated
EntriesFromAssetStorage(keyfmt, facets, digests, renditions) ==
    LET map == CollectNameIdentifiers(facets, EmptyMap)
    IN  [k \in DOMAIN renditions |->
            LET rendition_key_values == KeyFormatMap(keyfmt, renditions[k].key)
            IN  FromCsiHeader(renditions[k].csi,
                              FacetKeyOf(map, rendition_key_values),
                              rendition_key_values,
                              ShaDigestOf(digests, renditions[k].key))]

\* a second run of the projection over the same catalog
SecondRun ==
    /\ pc = "done"
    /\ imagedb # None
    /\ \E facets \in IterationOrders(facetkeysdb),
          renditions \in IterationOrders(Renditions) :
           rerun' = Some(EntriesFromAssetStorage(renditionkeyfmt, facets,
                                                 rendition_sha_digests, renditions))
    /\ pc' = "rerun_done"
    /\ UNCHANGED <<renditionkeyfmt, facetkeysdb, rendition_sha_digests,
                   raw_renditions, imagedb, name_identifer_to_facet_key,
                   result, serializer_maps, header_vars, reader_vars>>

\* asset_util_header and the serialization of its result
AssetUtilHeader ==
    /\ pc = "header"
    /\ header' = Some(AssetUtilHeaderOf(renditionkeyfmt, Unwrap(store)))
    /\ pc' = "header_done"
    /\ UNCHANGED <<renditionkeyfmt, facetkeysdb, rendition_sha_digests,
                   raw_renditions, imagedb, name_identifer_to_facet_key,
                   result, serializer_maps, store, rerun, reader_vars>>

Next ==
    \/ AssetUtilHeader
    \/ ReadCSIHeader
    \/ BuildNameIdentifierMap
    \/ ProjectRendition
    \/ ReturnEntries
    \/ CommonSerialization
    \/ SecondRun
    \/ ParseTlvRecord
    \/ ParseTlvReturn
    \/ ReadPaddedString

Spec == Init /\ [][Next]_vars

TypeOK ==
    /\ pc \in {"read", "facets", "project", "serialize", "done", "error", "panic",
              "header", "header_done", "rerun_done",
              "tlv", "tlv_done", "TlvTruncated",
              "string", "string_done", "string_error"}
    /\ Len(result) <= Len(Renditions)
    /\ Len(serializer_maps) <= Len(Renditions)

(***************************************************************************)
(* What the properties below speak about: the i-th entry, the rendition    *)
(* it was projected from, and that rendition as stored.                    *)
(***************************************************************************)
Projected == DOMAIN result
CsiOf(i) == Renditions[i].csi
KeyOf(i) == Renditions[i].key
RawCsiOf(i) == Unwrap(raw_renditions)[i].csi

\* the slots of a kind in the key format, and the value a key has there
SlotsOf(kind) == {k \in DOMAIN renditionkeyfmt : renditionkeyfmt[k] = kind}
HasSlot(kind) == SlotsOf(kind) # {}
SlotValue(i, kind) == KeyOf(i)[Min(SlotsOf(kind))]

\* the TLV records of a type in the stream of a CSI header
RecordsOf(csi, type) == {k \in DOMAIN csi.tlv_data : csi.tlv_data[k].type = type}
FirstRecord(csi, type) == csi.tlv_data[Min(RecordsOf(csi, type))]

(***************************************************************************)
(* C1: for every asset and every pair of u32 values tlv_length and         *)
(* rendition_length, SizeOnDisk is the integer 184 + tlv_length +          *)
(* rendition_length; the projection neither wraps modulo 2^32 nor aborts.  *)
(* The sum is taken here over the integers, half by half: a high half of   *)
(* 2^16 or more is a sum that no u32 holds.                                *)
(***************************************************************************)
IntegerSizeOnDisk(csi) ==
    LET lo == CSIHeaderSize + csi.tlv_length.lo + csi.rendition_length.lo
        hi == csi.tlv_length.hi + csi.rendition_length.hi + (lo \div Half)
    IN  U32(hi, lo % Half)

C1_SizeOnDiskIsIntegerSum ==
    /\ pc # "panic"
    /\ \A i \in Projected :
           result[i].size_on_disk = Some(IntegerSizeOnDisk(CsiOf(i)))

C3_OpaqueRule ==
    \A i \in Projected :
        CsiOf(i).layout = "Image" =>
            IF RecordsOf(CsiOf(i), "BlendModeAndOpacity") # {}
            THEN result[i].opaque =
                   Some(FirstRecord(CsiOf(i), "BlendModeAndOpacity").opacity = "1.0")
            ELSE result[i].opaque =
                   Some((CsiOf(i).rendition_flags % 16) >= 8)

\* an opaque-flagged image that a BlendModeAndOpacity record makes non-opaque
C3_Witness ==
    \E i \in Projected :
        /\ CsiOf(i).layout = "Image"
        /\ CsiOf(i).rendition_flags = 8
        /\ RecordsOf(CsiOf(i), "BlendModeAndOpacity") # {}
        /\ result[i].opaque = Some(FALSE)

(***************************************************************************)
(* C4: for every Image asset, a zero CSI pixel_width (pixel_height) with a *)
(* Slices record in the TLV stream is replaced by the width (height) of    *)
(* the first Slices record, a non-zero one is emitted unchanged, and each  *)
(* dimension is decided by its own CSI value only.                         *)
(***************************************************************************)
C4_SliceSubstitution ==
    \A i \in Projected :
        CsiOf(i).layout = "Image" =>
            /\ CsiOf(i).width # 0 => result[i].pixel_width = Some(CsiOf(i).width)
            /\ CsiOf(i).height # 0 => result[i].pixel_height = Some(CsiOf(i).height)
            /\ (CsiOf(i).width = 0 /\ RecordsOf(CsiOf(i), "Slices") # {}) =>
                   result[i].pixel_width = Some(FirstRecord(CsiOf(i), "Slices").width)
            /\ (CsiOf(i).height = 0 /\ RecordsOf(CsiOf(i), "Slices") # {}) =>
                   result[i].pixel_height = Some(FirstRecord(CsiOf(i), "Slices").height)

\* the width is substituted while the non-zero height is kept
C4_Witness ==
    \E i \in Projected :
        /\ CsiOf(i).layout = "Image"
        /\ CsiOf(i).width = 0
        /\ CsiOf(i).height = 42
        /\ RecordsOf(CsiOf(i), "Slices") # {}
        /\ result[i].pixel_width = Some(10)
        /\ result[i].pixel_height = Some(42)

(***************************************************************************)
(* C5: a rendition whose key has no digest is projected all the same, with *)
(* the empty string as SHA1Digest; a rendition with a stored digest gets   *)
(* the uppercase hex encoding of that digest, two digits per byte.         *)
(***************************************************************************)
IsUpperHexOf(text, bytes) ==
    /\ Len(text) = 2 * Len(bytes)
    /\ \A k \in DOMAIN bytes :
           /\ text[2 * k - 1] = HexUpper[(bytes[k] \div 16) + 1]
           /\ text[2 * k] = HexUpper[(bytes[k] % 16) + 1]

C5_MissingDigestIsEmptyString ==
    /\ \A i \in Projected :
           IF KeyOf(i) \in DOMAIN rendition_sha_digests
           THEN /\ IsSome(result[i].sha1_digest)
                /\ IsUpperHexOf(Unwrap(result[i].sha1_digest),
                                rendition_sha_digests[KeyOf(i)])
           ELSE result[i].sha1_digest = Some(<<>>)
    /\ pc = "done" =>
           \A i \in DOMAIN Renditions :
               KeyOf(i) \notin DOMAIN rendition_sha_digests => i \in Projected

\* a finished run with one rendition without a digest and one with
C5_Witness ==
    /\ pc = "done"
    /\ \E i, j \in Projected :
           /\ KeyOf(i) \notin DOMAIN rendition_sha_digests
           /\ result[i].sha1_digest = Some(<<>>)
           /\ KeyOf(j) \in DOMAIN rendition_sha_digests
           /\ result[j].sha1_digest = Some(<<"A", "B", "0", "F">>)

(***************************************************************************)
(* C6: the Name of an entry is the name of a facet whose Identifier        *)
(* attribute (the first one of its key token) has the value of the         *)
(* Identifier slot of the rendition key; Name is omitted when the key      *)
(* format has no Identifier slot or no facet has that value, and the       *)
(* entry is emitted in either case.                                        *)
(***************************************************************************)
HasIdentifier(facet, v) ==
    \E k \in DOMAIN facet.attributes :
        /\ facet.attributes[k] = [name |-> "Identifier", value |-> v]
        /\ \A j \in 1..(k - 1) : facet.attributes[j].name # "Identifier"

FacetNamesFor(i) ==
    IF HasSlot("Identifier")
    THEN {facetkeysdb[f].name : f \in
              {f \in DOMAIN facetkeysdb :
                   HasIdentifier(facetkeysdb[f], SlotValue(i, "Identifier"))}}
    ELSE {}

C6_NameIsFacetName ==
    /\ \A i \in Projected :
           IF FacetNamesFor(i) = {}
           THEN result[i].name = None
           ELSE IsSome(result[i].name) /\ Unwrap(result[i].name) \in FacetNamesFor(i)
    /\ pc = "done" => Projected = DOMAIN Renditions

\* a finished run whose entry is named after a facet that carries the
\* identifier behind another attribute, next to a facet without identifier
C6_Witness ==
    /\ pc = "done"
    /\ \E i \in Projected, f, g \in DOMAIN facetkeysdb :
           /\ HasSlot("Identifier")
           /\ Len(facetkeysdb[f].attributes) = 2
           /\ facetkeysdb[f].attributes[1].name = "Element"
           /\ FindAttribute(facetkeysdb[g].attributes, "Identifier") = None
           /\ result[i].name = Some(facetkeysdb[f].name)

(***************************************************************************)
(* C7: when two facets carry the same Identifier value, building the       *)
(* identifier-to-name map fails (DuplicateIdentifier); no map is produced  *)
(* in which one facet name overrides the other.                            *)
(***************************************************************************)
DuplicateIdentifier ==
    \E f, g \in DOMAIN facetkeysdb :
        /\ f # g
        /\ \E k \in DOMAIN facetkeysdb[f].attributes :
               /\ HasIdentifier(facetkeysdb[f], facetkeysdb[f].attributes[k].value)
               /\ HasIdentifier(facetkeysdb[g], facetkeysdb[f].attributes[k].value)

C7_DuplicateIdentifierFails ==
    DuplicateIdentifier => name_identifer_to_facet_key = None

(***************************************************************************)
(* C8: for every asset whose key format has a State slot, State is         *)
(* "Normal" when the slot holds 0 and "???" when it holds anything else;   *)
(* the field is never omitted.                                             *)
(***************************************************************************)
C8_StateNeverOmitted ==
    \A i \in Projected :
        HasSlot("State") =>
            result[i].state =
                Some(IF SlotValue(i, "State") = 0 THEN "Normal" ELSE "???")

(***************************************************************************)
(* C9: for every asset whose key format has a Value slot, Value is "Off"   *)
(* when the Value slot holds 0 and "On" otherwise, whatever the other      *)
(* slots hold.                                                             *)
(***************************************************************************)
C9_ValueFromValueSlot ==
    \A i \in Projected :
        HasSlot("Value") =>
            result[i].value =
                Some(IF SlotValue(i, "Value") = 0 THEN "Off" ELSE "On")

(***************************************************************************)
(* C10: in the key projection, Part and Element slots produce no field,    *)
(* and a slot of any kind but Part, Element, Idiom, State and Value,       *)
(* Identifier included, produces a field with its value exactly when the   *)
(* value is greater than 0.  Stated of both projections of a key: the      *)
(* serializer map of common_serialization and the NameIdentifier of the    *)
(* entry.                                                                  *)
(***************************************************************************)
OtherKinds == AttributeTypes \ {"Part", "Element", "Idiom", "State", "Value"}

FieldsOf(map, kind) == {k \in DOMAIN map : map[k].field = kind}

KeyProjectionRule(map, i) ==
    /\ FieldsOf(map, "Part") = {}
    /\ FieldsOf(map, "Element") = {}
    /\ \A kind \in OtherKinds :
           IF HasSlot(kind) /\ SlotValue(i, kind) > 0
           THEN \E k \in FieldsOf(map, kind) :
                    map[k].num = Some(SlotValue(i, kind))
           ELSE FieldsOf(map, kind) = {}

C10_SerializerRule ==
    \A i \in DOMAIN serializer_maps : KeyProjectionRule(serializer_maps[i], i)

C10_KeyProjectionRule ==
    /\ C10_SerializerRule
    /\ \A i \in Projected :
           result[i].name_identifier =
               IF HasSlot("Identifier") /\ SlotValue(i, "Identifier") > 0
               THEN Some(SlotValue(i, "Identifier"))
               ELSE None


(***************************************************************************)
(* C11: every entry carries AssetType, one of "Color", "Data", "Image",    *)
(* "???"; a layout that is none of Color, Data, Image is projected with    *)
(* "???", never without the field.                                         *)
(***************************************************************************)
C11_AssetTypeAlwaysPresent ==
    \A i \in Projected :
        /\ result[i].asset_type \in
               {Some("Color"), Some("Data"), Some("Image"), Some("???")}
        /\ CsiOf(i).layout \notin {"Color", "Data", "Image"} =>
               result[i].asset_type = Some("???")


\* the string before its first NUL character
NulPositions(string) == {k \in DOMAIN string : string[k] = NUL}
TrimmedAtNul(string) ==
    IF NulPositions(string) = {} THEN string
    ELSE SubSeq(string, 1, Min(NulPositions(string)) - 1)

(***************************************************************************)
(* C12: an entry of layout Data with a RawData body has Compression        *)
(* "uncompressed", Data Length the raw length, UTI the string of the first *)
(* UTI record trimmed at its first NUL or "UTI-Unknown" without such a     *)
(* record, and none of BitsPerComponent, ColorModel, Colorspace, Encoding, *)
(* Opaque, PixelHeight, PixelWidth, RenditionName, Template Mode.          *)
(***************************************************************************)
C12_DataProjection ==
    \A i \in Projected :
        (CsiOf(i).layout = "Data" /\ CsiOf(i).rendition_data.kind = "RawData") =>
            /\ result[i].compression = Some("uncompressed")
            /\ result[i].data_length = Some(CsiOf(i).rendition_data.raw_data_length)
            /\ result[i].uti =
                   IF RecordsOf(CsiOf(i), "UTI") # {}
                   THEN Some(TrimmedAtNul(FirstRecord(CsiOf(i), "UTI").string))
                   ELSE Some(<<"U", "T", "I", "-", "U", "n", "k", "n", "o", "w", "n">>)
            /\ result[i].bits_per_component = None
            /\ result[i].color_model = None
            /\ result[i].colorspace = None
            /\ result[i].encoding = None
            /\ result[i].opaque = None
            /\ result[i].pixel_height = None
            /\ result[i].pixel_width = None
            /\ result[i].rendition_name = None
            /\ result[i].template_mode = None

\* a raw data asset whose second TLV record is a UTI string with NUL padding
C12_Witness ==
    \E i \in Projected :
        /\ CsiOf(i).layout = "Data"
        /\ CsiOf(i).rendition_data.kind = "RawData"
        /\ Len(CsiOf(i).tlv_data) = 2
        /\ CsiOf(i).tlv_data[1].type = "Unknown"
        /\ CsiOf(i).tlv_data[2] = [type |-> "UTI", string |-> <<"t", NUL, "x", NUL>>]
        /\ result[i].uti = Some(<<"t">>)
        /\ result[i].data_length = Some(14)


(***************************************************************************)
(* C13: an entry of layout Image has all of BitsPerComponent = 8, Encoding *)
(* the pixel-format tag, PixelHeight, PixelWidth, RenditionName the CSI    *)
(* metadata name, Opaque and Scale; none of them is omitted, whatever the  *)
(* dimensions, the TLV stream and the body.                                *)
(***************************************************************************)
C13_ImageFieldsNeverOmitted ==
    \A i \in Projected :
        CsiOf(i).layout = "Image" =>
            /\ result[i].bits_per_component = Some(8)
            /\ result[i].encoding = Some(CsiOf(i).pixel_format)
            /\ result[i].pixel_height # None
            /\ result[i].pixel_width # None
            /\ result[i].rendition_name = Some(CsiOf(i).name)
            /\ result[i].opaque # None
            /\ result[i].scale # None


\* the names of the attribute kinds as the header prints them
ThemeNames ==
    [Look |-> "kCRThemeLookName", Element |-> "kCRThemeElementName",
     Part |-> "kCRThemePartName", Size |-> "kCRThemeSizeName",
     Direction |-> "kCRThemeDirectionName",
     PlaceHolder |-> "kCRThemePlaceHolderName", Value |-> "kCRThemeValueName",
     Appearance |-> "kCRThemeAppearanceName",
     Dimension1 |-> "kCRThemeDimension1Name",
     Dimension2 |-> "kCRThemeDimension2Name", State |-> "kCRThemeStateName",
     Layer |-> "kCRThemeLayerName", Scale |-> "kCRThemeScaleName",
     Unknown13 |-> "kCRThemeUnknown13Name",
     PresentationState |-> "kCRThemePresentationStateName",
     Idiom |-> "kCRThemeIdiomName", Subtype |-> "kCRThemeSubtypeName",
     Identifier |-> "kCRThemeIdentifierName",
     PreviousValue |-> "kCRThemePreviousValueName",
     PreviousState |-> "kCRThemePreviousStateName",
     SizeClassHorizontal |-> "kCRThemeSizeClassHorizontalName",
     SizeClassVertical |-> "kCRThemeSizeClassVerticalName",
     MemoryClass |-> "kCRThemeMemoryClassName",
     GraphicsClass |-> "kCRThemeGraphicsClassName",
     DisplayGamut |-> "kCRThemeDisplayGamutName",
     DeploymentTarget |-> "kCRThemeDeploymentTargetName"]

(***************************************************************************)
(* C14: the header's Key Format has exactly one name per slot of the key   *)
(* format, in declaration order, the kind K printed "kCRTheme" K "Name";   *)
(* Appearances is omitted from the header when the store has none.         *)
(***************************************************************************)
C14_KeyFormatNames ==
    pc = "header_done" =>
        /\ Len(Unwrap(header).key_format) = Len(renditionkeyfmt)
        /\ \A k \in DOMAIN renditionkeyfmt :
               Unwrap(header).key_format[k] = ThemeNames[renditionkeyfmt[k]]
        /\ Unwrap(store).appearances = None => Unwrap(header).appearances = None

\* the header of the test catalog: eighteen names, no Appearances
C14_Witness ==
    /\ pc = "header_done"
    /\ Unwrap(header).appearances = None
    /\ Unwrap(header).key_format =
           <<"kCRThemeAppearanceName", "kCRThemeScaleName", "kCRThemeIdiomName",
             "kCRThemeSubtypeName", "kCRThemeDeploymentTargetName",
             "kCRThemeGraphicsClassName", "kCRThemeMemoryClassName",
             "kCRThemeDisplayGamutName", "kCRThemeDirectionName",
             "kCRThemeSizeClassHorizontalName", "kCRThemeSizeClassVerticalName",
             "kCRThemeIdentifierName", "kCRThemeElementName", "kCRThemePartName",
             "kCRThemeStateName", "kCRThemeValueName", "kCRThemeDimension1Name",
             "kCRThemeDimension2Name">>


(***************************************************************************)
(* C15: two runs of the projection over the same catalog produce the same  *)
(* entries in the same order, with the same Name for every entry, in       *)
(* whatever order the facet and rendition mappings are iterated.           *)
(***************************************************************************)
C15_RunsAgree ==
    pc = "rerun_done" => Unwrap(rerun) = result


(***************************************************************************)
(* C16: for every TLV stream of declared length L the decoder either fails *)
(* with TlvTruncated or returns having consumed exactly L bytes; for L = 0 *)
(* it returns the empty sequence of records, and an unrecognized tag gives *)
(* an Unknown record.                                                      *)
(***************************************************************************)
C16_ConsumesDeclaredLength ==
    /\ pc = "tlv_done" => reader.pos = Len(reader.bytes)
    /\ (pc = "tlv_done" /\ reader.bytes = <<>>) => parsed = Some(<<>>)
    /\ pc \in {"tlv", "tlv_done"} =>
           \A k \in DOMAIN Unwrap(parsed) :
               Unwrap(parsed)[k].tag \notin {U32(0, 1001), U32(0, 1004), U32(0, 1005)}
                   => Unwrap(parsed)[k].type = "Unknown"


\* the bytes of the slot before its first NUL
SlotOf(bytes) == SubSeq(bytes, 1, Min({SlotWidth, Len(bytes)}))
BytesBeforeNul(slot) ==
    IF \E k \in DOMAIN slot : slot[k] = 0
    THEN SubSeq(slot, 1, Min({k \in DOMAIN slot : slot[k] = 0}) - 1)
    ELSE slot

(***************************************************************************)
(* C17: reading a padded string from a slot of width w advances the cursor *)
(* by exactly w and yields the bytes before the first NUL of the slot, for *)
(* every slot content, a slot without NUL included; it fails when fewer    *)
(* than w bytes remain, and never consumes bytes beyond the slot.          *)
(***************************************************************************)
C17_PaddedStringStaysInSlot ==
    /\ pc = "string_done" =>
           /\ reader.pos = SlotWidth
           /\ parsed = Some(BytesBeforeNul(SlotOf(reader.bytes)))
    /\ pc \in {"string_done", "string_error"} =>
           /\ reader.pos <= SlotWidth
           /\ (pc = "string_error") = (Len(reader.bytes) < SlotWidth)


(***************************************************************************)
(* C18: the projection returns exactly one entry for every rendition of    *)
(* the rendition table, in particular for a rendition of an unknown kind,  *)
(* with an unresolved name or without a digest; without a rendition table  *)
(* it returns the empty sequence and does not fail.                        *)
(***************************************************************************)
C18_OneEntryPerRendition ==
    /\ (pc = "done" /\ raw_renditions # None) =>
           Len(result) = Len(Unwrap(raw_renditions))
    /\ (pc = "done" /\ raw_renditions = None) => result = <<>>
    /\ (raw_renditions = None /\ store = None) => pc \notin {"error", "panic"}

\* a rendition of an unknown kind, without digest and without a facet of its
\* identifier, has its entry
C18_Witness ==
    /\ pc = "done"
    /\ raw_renditions # None
    /\ Len(Unwrap(raw_renditions)) = 1
    /\ Unwrap(imagedb)[1].csi.rendition_data.kind = "Unknown"
    /\ Unwrap(imagedb)[1].key \notin DOMAIN rendition_sha_digests
    /\ Len(result) = 1
    /\ result[1].name = None
    /\ result[1].sha1_digest = Some(<<>>)

====
